---------------------------- MODULE Spec2Model ----------------------------
(***************************************************************************)
(* Vault audit analyzer (src/main.go): the single pass over the lines of   *)
(* an audit log that groups failure events by signature, the sort of the   *)
(* incidents by count, and the per-incident report with the advice of the  *)
(* first matching rule.                                                    *)
(*                                                                         *)
(* Text that the program takes apart (request path, error text, rule       *)
(* pattern, signature) is a sequence of one-character strings.  Text that  *)
(* the program only compares and stores (the time field, the remote        *)
(* address, the advice) is a string.  A point in time is the number of     *)
(* seconds since Go's zero time.Time (0001-01-01T00:00:00Z).               *)
(***************************************************************************)
EXTENDS Integers, Sequences, FiniteSets, TLC

VARIABLES
    rules,          \* []Rule returned by loadRules                (main.go:58)
    file,           \* the lines of the opened log file            (main.go:60)
    pos,            \* index of the next line the scanner reads    (main.go:72)
    scanErr,        \* scanner.Err(): "" or "ErrTooLong"           (main.go:76)
    pc,             \* "scan", "sort", "report", "done"
    analysis,       \* map[string]*Stats                           (main.go:68)
    pathStats,      \* map[string]int                              (main.go:69)
    rawErrorStats,  \* map[string]int                              (main.go:70)
    sorted,         \* []*Stats                                    (main.go:117)
    report          \* the blocks printed, one per incident        (main.go:129)

vars == <<rules, file, pos, scanErr, pc, analysis, pathStats, rawErrorStats,
          sorted, report>>

----------------------------------------------------------------------------
(* Bounds and program constants *)

\* Longest log file explored, in lines.
MaxLines == 3

\* scanner.Buffer(buf, 1024*1024): the buffer's capacity and the token limit.
MaxTokenSize == 1048576

\* The zero time.Time, which time.Parse returns with an error.
ZeroTime == 0

DefaultAdvice == "Investigate this error pattern."

----------------------------------------------------------------------------
(* strings *)

\* unicode.IsSpace on the characters the model uses.
WhiteSpace == {" ", "\t", "\n", "\r", "\f"}

RECURSIVE TrimLeft(_)
TrimLeft(s) ==
    IF s # <<>> /\ Head(s) \in WhiteSpace THEN TrimLeft(Tail(s)) ELSE s

RECURSIVE TrimRight(_)
TrimRight(s) ==
    IF s # <<>> /\ s[Len(s)] \in WhiteSpace
    THEN TrimRight(SubSeq(s, 1, Len(s) - 1))
    ELSE s

\* strings.TrimSpace
TrimSpace(s) == TrimRight(TrimLeft(s))

\* strings.ReplaceAll for a one-character old and new.
ReplaceAll(s, old, new) ==
    [i \in 1..Len(s) |-> IF s[i] = old THEN new ELSE s[i]]

\* strings.Contains: the empty substring is contained in every string.
Contains(s, substr) ==
    \E i \in 0..(Len(s) - Len(substr)) : SubSeq(s, i + 1, i + Len(substr)) = substr

\* strings.HasPrefix
HasPrefix(s, prefix) ==
    Len(s) >= Len(prefix) /\ SubSeq(s, 1, Len(prefix)) = prefix

\* strings.Join(strings.Fields(s), " "): the words of s, one space between.
RECURSIVE JoinFields(_)
JoinFields(s) ==
    LET t == TrimLeft(s)
        n == IF \E i \in 1..Len(t) : t[i] \in WhiteSpace
             THEN (CHOOSE i \in 1..Len(t) :
                      /\ t[i] \in WhiteSpace
                      /\ \A j \in 1..(i - 1) : t[j] \notin WhiteSpace) - 1
             ELSE Len(t)
        rest == TrimLeft(SubSeq(t, n + 1, Len(t)))
    IN  IF t = <<>> THEN <<>>
        ELSE IF rest = <<>> THEN SubSeq(t, 1, n)
        ELSE SubSeq(t, 1, n) \o <<" ">> \o JoinFields(rest)

cleanForDisplay(s) ==
    JoinFields(ReplaceAll(ReplaceAll(s, "\n", " "), "\t", " "))

----------------------------------------------------------------------------
(* time *)

\* The time fields of the model that are RFC3339, with the instant each
\* denotes.  The last two denote the same instant in different zones.
RFC3339 ==
    ("0000-12-31T23:59:59Z" :> -1) @@
    ("0001-01-01T00:00:01Z" :> 1) @@
    ("0001-01-01T00:00:02Z" :> 2) @@
    ("0001-01-01T01:00:02+01:00" :> 2)

\* t, _ := time.Parse(time.RFC3339, entry.Time)
ParseTime(s) == IF s \in DOMAIN RFC3339 THEN RFC3339[s] ELSE ZeroTime

Before(t, u) == t < u
After(t, u) == t > u

----------------------------------------------------------------------------
(* input *)

\* A decoded VaultAudit: the fields main reads.
VaultAudit(time, error, path, remote) ==
    [Time |-> time, Error |-> error, Path |-> path, RemoteAddress |-> remote]

\* var entry VaultAudit
ZeroEntry == VaultAudit("", <<>>, <<>>, "")

\* A line of the file: its length in bytes, the index of its first "{"
\* (-1 when it has none), whether the text from there decodes, and the
\* entry decoding gives.
Line(size, brace, ok, entry) ==
    [size |-> size, brace |-> brace, ok |-> ok, entry |-> entry]

PathA == <<"a">>
PathAB == <<"a", "|", "b">>

LineSet ==
    { Line(40, -1, FALSE, ZeroEntry),
      Line(40, 7, FALSE, ZeroEntry),
      Line(90, 0, TRUE,
           VaultAudit("0001-01-01T00:00:01Z", <<>>, PathA, "10.0.0.1")),
      Line(MaxTokenSize, 0, TRUE,
           VaultAudit("0001-01-01T00:00:01Z", <<"c">>, PathA, "10.0.0.1")),
      Line(MaxTokenSize - 1, 0, TRUE,
           VaultAudit("0001-01-01T01:00:02+01:00", <<"c">>, PathA, "10.0.0.2")),
      Line(90, 0, TRUE,
           VaultAudit("0001-01-01T00:00:02Z", <<"c">>, PathA, "10.0.0.1")),
      Line(90, 11, TRUE,
           VaultAudit("0001-01-01T00:00:01Z", <<"c", "\n">>, PathA, "10.0.0.2")),
      Line(90, 0, TRUE,
           VaultAudit("", <<" ", "c">>, PathA, "")),
      Line(90, 0, TRUE,
           VaultAudit("0000-12-31T23:59:59Z", <<"c">>, PathAB, "10.0.0.1")),
      Line(90, 0, TRUE,
           VaultAudit("not-a-time", <<"b", "|", "c">>, PathA, "10.0.0.2")),
      Line(90, 3, TRUE,
           VaultAudit("0001-01-01T00:00:02Z", <<"\t">>, PathAB, "")),
      Line(MaxTokenSize + 1, -1, FALSE, ZeroEntry) }

Files == UNION {[1..n -> LineSet] : n \in 0..MaxLines}

Rule(pattern, advice) == [Pattern |-> pattern, Advice |-> advice]

RuleLists ==
    { <<>>,
      <<Rule(<<"c">>, "A"), Rule(<<"b", "|", "c">>, "B")>>,
      <<Rule(<<"|">>, ""), Rule(<<>>, "E")>> }

\* The remote addresses of the model in the order sort.Strings gives them.
AddrOrder == <<"10.0.0.1", "10.0.0.2">>

----------------------------------------------------------------------------
(* the read loop *)

\* bufio.Scanner with a full buffer and no newline in it: ErrTooLong.
TooLong(line) == line.size >= MaxTokenSize

\* strings.Index(line, "{")
Index(line) == line.brace

\* Skips without the third continue: a record with no error is aggregated.
SkipsKeepsEmptyError(line) ==
    \/ Index(line) = -1
    \/ ~line.ok

\* The three continue statements of the loop body.
Skips(line) ==
    \/ Index(line) = -1
    \/ ~line.ok
    \/ line.entry.Error = <<>>

\* fmt.Sprintf("%s|%s", entry.Request.Path, cleanKey)
Signature(path, cleanKey) == path \o <<"|">> \o cleanKey

NewStats(sig, entry, t) ==
    [Signature |-> sig,
     Path      |-> entry.Path,
     ErrorMsg  |-> entry.Error,
     Count     |-> 0,
     FirstTime |-> t,
     LastTime  |-> t,
     UniqueIPs |-> {}]

\* Update taking the times in arrival order: the last event is the last time.
UpdateArrivalOrder(stat, entry, t) ==
    [stat EXCEPT
        !.Count = @ + 1,
        !.LastTime = t,
        !.UniqueIPs = IF entry.RemoteAddress # "" THEN @ \cup {entry.RemoteAddress}
                      ELSE @]

\* Update without the test for an empty remote address.
UpdateAnyAddress(stat, entry, t) ==
    [stat EXCEPT
        !.Count = @ + 1,
        !.FirstTime = IF Before(t, @) THEN t ELSE @,
        !.LastTime = IF After(t, @) THEN t ELSE @,
        !.UniqueIPs = @ \cup {entry.RemoteAddress}]

\* Update that also stores the error text of the event at hand.
UpdateLatestError(stat, entry, t) ==
    [stat EXCEPT
        !.ErrorMsg = entry.Error,
        !.Count = @ + 1,
        !.FirstTime = IF Before(t, @) THEN t ELSE @,
        !.LastTime = IF After(t, @) THEN t ELSE @,
        !.UniqueIPs = IF entry.RemoteAddress # "" THEN @ \cup {entry.RemoteAddress}
                      ELSE @]

Update(stat, entry, t) ==
    [stat EXCEPT
        !.Count = @ + 1,
        !.FirstTime = IF Before(t, @) THEN t ELSE @,
        !.LastTime = IF After(t, @) THEN t ELSE @,
        !.UniqueIPs = IF entry.RemoteAddress # "" THEN @ \cup {entry.RemoteAddress}
                      ELSE @]

\* m[k]++ on a map[string]int
Increment(m, k) ==
    IF k \in DOMAIN m THEN [m EXCEPT ![k] = @ + 1] ELSE m @@ (k :> 1)

\* m[k] = v on a map
Store(m, k, v) == [x \in DOMAIN m \cup {k} |-> IF x = k THEN v ELSE m[x]]

Skip ==
    /\ pc = "scan"
    /\ pos <= Len(file)
    /\ ~TooLong(file[pos])
    /\ Skips(file[pos])
    /\ pos' = pos + 1
    /\ UNCHANGED <<rules, file, scanErr, pc, analysis, pathStats, rawErrorStats,
                   sorted, report>>

Observe ==
    /\ pc = "scan"
    /\ pos <= Len(file)
    /\ ~TooLong(file[pos])
    /\ ~Skips(file[pos])
    /\ LET entry == file[pos].entry
           rawErr == entry.Error
           cleanKey == TrimSpace(rawErr)
           sig == Signature(entry.Path, cleanKey)
           t == ParseTime(entry.Time)
           stat == IF sig \in DOMAIN analysis THEN analysis[sig]
                   ELSE NewStats(sig, entry, t)
       IN  /\ pathStats' = Increment(pathStats, entry.Path)
           /\ rawErrorStats' = Increment(rawErrorStats, rawErr)
           /\ analysis' = Store(analysis, sig, Update(stat, entry, t))
    /\ pos' = pos + 1
    /\ UNCHANGED <<rules, file, scanErr, pc, sorted, report>>

\* scanner.Scan() returns false at the end of the file.
ScanEOF ==
    /\ pc = "scan"
    /\ pos > Len(file)
    /\ pc' = "sort"
    /\ UNCHANGED <<rules, file, pos, scanErr, analysis, pathStats, rawErrorStats,
                   sorted, report>>

\* scanner.Scan() returns false on a line that does not fit the buffer; the
\* loop ends and main goes on without reading scanner.Err().
ScanTooLong ==
    /\ pc = "scan"
    /\ pos <= Len(file)
    /\ TooLong(file[pos])
    /\ scanErr' = "ErrTooLong"
    /\ pc' = "sort"
    /\ UNCHANGED <<rules, file, pos, analysis, pathStats, rawErrorStats,
                   sorted, report>>

----------------------------------------------------------------------------
(* sorting *)

\* Less with the comparison turned around: ascending counts.
LessAscending(a, b) == a.Count < b.Count

\* The less function handed to sort.Slice.
Less(a, b) == a.Count > b.Count

Swap(data, i, j) ==
    [data EXCEPT ![i] = data[j], ![j] = data[i]]

RECURSIVE Sink(_, _)
Sink(data, j) ==
    IF j > 1 /\ Less(data[j], data[j - 1])
    THEN Sink(Swap(data, j, j - 1), j - 1)
    ELSE data

RECURSIVE InsertFrom(_, _)
InsertFrom(data, i) ==
    IF i > Len(data) THEN data ELSE InsertFrom(Sink(data, i), i + 1)

\* sort.Slice on fewer than 12 elements is an insertion sort.
SortSlice(data) == InsertFrom(data, 2)

\* The orders in which "for _, s := range analysis" can append the incidents.
RangeOrders(m) ==
    {[i \in 1..Cardinality(DOMAIN m) |-> m[f[i]]] :
        f \in {g \in [1..Cardinality(DOMAIN m) -> DOMAIN m] :
                  \A i, j \in 1..Cardinality(DOMAIN m) : g[i] = g[j] => i = j}}

Sort ==
    /\ pc = "sort"
    /\ \E appended \in RangeOrders(analysis) : sorted' = SortSlice(appended)
    /\ pc' = "report"
    /\ UNCHANGED <<rules, file, pos, scanErr, analysis, pathStats, rawErrorStats,
                   report>>

----------------------------------------------------------------------------
(* report *)

Category(path) ==
    IF HasPrefix(path, <<"s", "y", "s", "/">>) THEN "SYS"
    ELSE IF HasPrefix(path, <<"a", "u", "t", "h", "/">>) THEN "AUTH"
    ELSE "DATA"

\* fmt.Sprintf("%s %s", inc.Path, flatErr)
FullSig(path, errorMsg) == path \o <<" ">> \o ReplaceAll(errorMsg, "\n", " ")

\* The loop over the rules: the advice at the break, "" without one.
RECURSIVE MatchFrom(_, _, _)
MatchFrom(fullSig, rs, i) ==
    IF i > Len(rs) THEN ""
    ELSE IF Contains(fullSig, rs[i].Pattern) THEN rs[i].Advice
    ELSE MatchFrom(fullSig, rs, i + 1)

Advice(path, errorMsg, rs) ==
    LET advice == MatchFrom(FullSig(path, errorMsg), rs, 1)
    IN  IF advice = "" THEN DefaultAdvice ELSE advice

mapToSortedSlice(m) == SelectSeq(AddrOrder, LAMBDA a : a \in m)

Block(inc, rs) ==
    [Category  |-> Category(inc.Path),
     Count     |-> inc.Count,
     Path      |-> inc.Path,
     Error     |-> cleanForDisplay(inc.ErrorMsg),
     FirstTime |-> inc.FirstTime,
     LastTime  |-> inc.LastTime,
     Duration  |-> inc.LastTime - inc.FirstTime,
     Sources   |-> mapToSortedSlice(inc.UniqueIPs),
     Analysis  |-> Advice(inc.Path, inc.ErrorMsg, rs)]

Report ==
    /\ pc = "report"
    /\ report' = [i \in 1..Len(sorted) |-> Block(sorted[i], rules)]
    /\ pc' = "done"
    /\ UNCHANGED <<rules, file, pos, scanErr, analysis, pathStats, rawErrorStats,
                   sorted>>

----------------------------------------------------------------------------
(* specification *)

Init ==
    /\ rules \in RuleLists
    /\ file \in Files
    /\ pos = 1
    /\ scanErr = ""
    /\ pc = "scan"
    /\ analysis = <<>>
    /\ pathStats = <<>>
    /\ rawErrorStats = <<>>
    /\ sorted = <<>>
    /\ report = <<>>

Next ==
    \/ Skip
    \/ Observe
    \/ ScanEOF
    \/ ScanTooLong
    \/ Sort
    \/ Report

Spec == Init /\ [][Next]_vars

----------------------------------------------------------------------------
(* What the properties speak of: the lines the scanner has returned so far, *)
(* and the failure events among them.                                       *)

TypeOK ==
    /\ rules \in RuleLists
    /\ file \in Files
    /\ pos \in 1..(Len(file) + 1)
    /\ scanErr \in {"", "ErrTooLong"}
    /\ pc \in {"scan", "sort", "report", "done"}
    /\ \A sig \in DOMAIN analysis : analysis[sig].Count \in Nat
    /\ \A p \in DOMAIN pathStats : pathStats[p] \in Nat
    /\ \A e \in DOMAIN rawErrorStats : rawErrorStats[e] \in Nat
    /\ Len(report) <= Len(sorted)

\* A decodable line with a non-empty error.
IsFailureEvent(line) ==
    line.brace # -1 /\ line.ok /\ line.entry.Error # <<>>

\* A line with no "{", an undecodable line, a record with an empty error.
IsSkipLine(line) ==
    line.brace = -1 \/ ~line.ok \/ line.entry.Error = <<>>

\* The failure events the read loop has examined, by their line numbers.
Events == {i \in 1..(pos - 1) : IsFailureEvent(file[i])}

\* The failure events of the whole file.
FileEvents == {i \in 1..Len(file) : IsFailureEvent(file[i])}

SigOf(i) == Signature(file[i].entry.Path, TrimSpace(file[i].entry.Error))

EventsOf(sig) == {i \in Events : SigOf(i) = sig}

TimeOf(i) == ParseTime(file[i].entry.Time)

Minimum(S) == CHOOSE x \in S : \A y \in S : x <= y
Maximum(S) == CHOOSE x \in S : \A y \in S : x >= y

RECURSIVE SumOver(_, _)
SumOver(m, S) ==
    IF S = {} THEN 0
    ELSE LET k == CHOOSE x \in S : TRUE IN m[k] + SumOver(m, S \ {k})

Total(m) == SumOver(m, DOMAIN m)

----------------------------------------------------------------------------
\* The aggregation of the examined lines: every examined failure event has
\* its incident, whose Count is the number of examined events of its
\* signature and at least 1.
ExaminedCounts ==
    /\ DOMAIN analysis = {SigOf(i) : i \in Events}
    /\ \A sig \in DOMAIN analysis :
          /\ analysis[sig].Count = Cardinality(EventsOf(sig))
          /\ analysis[sig].Count >= 1

\* C1 (count conservation): after the pass, for every signature, the
\* incident's Count is the number of failure events in the input whose path
\* and trimmed error give that signature; the signatures with an incident
\* are those of the input's failure events, and no incident has Count = 0.
C1_CountConservation ==
    pc # "scan" =>
        /\ DOMAIN analysis = {SigOf(i) : i \in FileEvents}
        /\ \A sig \in DOMAIN analysis :
              /\ analysis[sig].Count =
                    Cardinality({i \in FileEvents : SigOf(i) = sig})
              /\ analysis[sig].Count >= 1

\* C2 (time bounds): for every signature, FirstTime is the earliest and
\* LastTime the latest instant among the events of that signature, an event
\* whose time is not RFC3339 counting with the zero time; FirstTime is never
\* after LastTime.
C2_TimeBounds ==
    \A sig \in DOMAIN analysis :
        LET times == {TimeOf(i) : i \in EventsOf(sig)}
        IN  /\ analysis[sig].FirstTime = Minimum(times)
            /\ analysis[sig].LastTime = Maximum(times)
            /\ analysis[sig].FirstTime <= analysis[sig].LastTime

\* An incident whose earliest event arrived after a later one, and which
\* counts an event whose time field did not parse.
C2_Witness ==
    \E sig \in DOMAIN analysis :
        /\ \E i, j \in EventsOf(sig) :
              i < j /\ TimeOf(j) < TimeOf(i) /\ analysis[sig].FirstTime = TimeOf(j)
        /\ \E k \in EventsOf(sig) :
              /\ file[k].entry.Time \notin DOMAIN RFC3339
              /\ analysis[sig].Count = Cardinality(EventsOf(sig))
        /\ analysis[sig].FirstTime < analysis[sig].LastTime

\* C3 (address dedup): for every signature, UniqueIPs is exactly the set of
\* non-empty remote addresses of the events of that signature, the creating
\* event's included, never the empty string; the report lists each of them
\* once.
C3_AddressDedup ==
    /\ \A sig \in DOMAIN analysis :
          /\ analysis[sig].UniqueIPs =
                {file[i].entry.RemoteAddress : i \in EventsOf(sig)} \ {""}
          /\ "" \notin analysis[sig].UniqueIPs
    /\ \A n \in 1..Len(report) :
          LET src == report[n].Sources
          IN  /\ {src[k] : k \in 1..Len(src)} = sorted[n].UniqueIPs
              /\ \A k, l \in 1..Len(src) : src[k] = src[l] => k = l

\* A reported incident that saw one address twice and an event without an
\* address, its creating event carrying an address.
C3_Witness ==
    /\ pc = "done"
    /\ \E sig \in DOMAIN analysis :
          /\ \E i, j \in EventsOf(sig) :
                i < j /\ file[i].entry.RemoteAddress = file[j].entry.RemoteAddress
                      /\ file[i].entry.RemoteAddress # ""
          /\ \E k \in EventsOf(sig) : file[k].entry.RemoteAddress = ""
          /\ file[Minimum(EventsOf(sig))].entry.RemoteAddress \in analysis[sig].UniqueIPs
          /\ Cardinality(analysis[sig].UniqueIPs) = 1

\* C4 (grouping): two failure events have the same signature, and so the
\* same incident, exactly when their paths are equal and their trimmed error
\* texts are equal.
C4_GroupingInjective ==
    \A i, j \in Events :
        (SigOf(i) = SigOf(j))
            <=> (/\ file[i].entry.Path = file[j].entry.Path
                 /\ TrimSpace(file[i].entry.Error) = TrimSpace(file[j].entry.Error))

\* The first rule, in list order, whose pattern is a substring of the text.
FirstMatch(text, rs) ==
    LET hits == {i \in 1..Len(rs) : Contains(text, rs[i].Pattern)}
    IN  IF hits = {} THEN 0 ELSE Minimum(hits)

\* C5 (rule matching): the advice of every reported incident is the Advice of
\* the first rule whose pattern is a substring of the search text, whatever
\* that advice is, and the default advice when no rule matches.
C5_FirstRuleAdvice ==
    \A n \in 1..Len(report) :
        LET text == FullSig(sorted[n].Path, sorted[n].ErrorMsg)
            hit == FirstMatch(text, rules)
        IN  report[n].Analysis =
                IF hit = 0 THEN DefaultAdvice ELSE rules[hit].Advice

\* C6 (skip tolerance): a step that examines a line with no "{", an
\* undecodable line or a record with an empty error leaves the incident map
\* and both counters as they were, reports no error, and the pass goes on
\* with the next line.
C6_SkipTolerance ==
    [][ (pc = "scan" /\ pos <= Len(file) /\ file[pos].size < MaxTokenSize
            /\ IsSkipLine(file[pos]))
        => /\ analysis' = analysis
           /\ pathStats' = pathStats
           /\ rawErrorStats' = rawErrorStats
           /\ scanErr' = scanErr
           /\ pc' = "scan"
           /\ pos' = pos + 1 ]_vars

\* A skipped line between two aggregated events.
C6_Witness ==
    \E i, j, k \in 1..(pos - 1) :
        /\ i < j /\ j < k
        /\ IsFailureEvent(file[i]) /\ IsSkipLine(file[j]) /\ IsFailureEvent(file[k])
        /\ Total(pathStats) = 2

\* The counters of the examined lines: each counts the examined failure
\* events of its key, and each sums to the sum of the incidents' Counts.
ExaminedCounters ==
    /\ DOMAIN pathStats = {file[i].entry.Path : i \in Events}
    /\ DOMAIN rawErrorStats = {file[i].entry.Error : i \in Events}
    /\ \A p \in DOMAIN pathStats :
          pathStats[p] = Cardinality({i \in Events : file[i].entry.Path = p})
    /\ \A e \in DOMAIN rawErrorStats :
          rawErrorStats[e] = Cardinality({i \in Events : file[i].entry.Error = e})
    /\ Total(pathStats) = Cardinality(Events)
    /\ Total(rawErrorStats) = Cardinality(Events)
    /\ Total([sig \in DOMAIN analysis |-> analysis[sig].Count]) = Cardinality(Events)

\* C7 (frequency counters): after the pass over any sequence of lines,
\* pathStats[p] is the number of failure events of the input with path p and
\* rawErrorStats[e] the number with untrimmed error text e; each counter
\* sums to the sum of the incidents' Counts, the number of failure events.
C7_FrequencyCounters ==
    pc # "scan" =>
        /\ DOMAIN pathStats = {file[i].entry.Path : i \in FileEvents}
        /\ DOMAIN rawErrorStats = {file[i].entry.Error : i \in FileEvents}
        /\ \A p \in DOMAIN pathStats :
              pathStats[p] =
                  Cardinality({i \in FileEvents : file[i].entry.Path = p})
        /\ \A e \in DOMAIN rawErrorStats :
              rawErrorStats[e] =
                  Cardinality({i \in FileEvents : file[i].entry.Error = e})
        /\ Total(pathStats) = Cardinality(FileEvents)
        /\ Total(rawErrorStats) = Cardinality(FileEvents)
        /\ Total([sig \in DOMAIN analysis |-> analysis[sig].Count])
              = Cardinality(FileEvents)

\* C8 (no interruption): once the read loop has ended, every line of the file
\* has been examined, so every failure event of the file has its incident.
C8_PassReachesEndOfStream ==
    pc # "scan" =>
        /\ pos = Len(file) + 1
        /\ \A i \in FileEvents : SigOf(i) \in DOMAIN analysis

\* C9 (report order): the sequence handed to the report holds every incident
\* of the map exactly once, in order of non-increasing Count.
C9_ReportOrder ==
    pc \in {"report", "done"} =>
        /\ Len(sorted) = Cardinality(DOMAIN analysis)
        /\ \A sig \in DOMAIN analysis :
              Cardinality({n \in 1..Len(sorted) : sorted[n] = analysis[sig]}) = 1
        /\ \A n \in 1..(Len(sorted) - 1) : sorted[n].Count >= sorted[n + 1].Count

\* Two incidents of different counts, reported.
C9_Witness ==
    /\ pc = "done"
    /\ Len(sorted) = 2
    /\ sorted[1].Count > sorted[2].Count

\* The first event of a signature among the examined lines.
FirstOf(sig) == file[Minimum(EventsOf(sig))].entry

C10_IdentityAtFirst ==
    \A sig \in DOMAIN analysis :
        /\ analysis[sig].Signature = sig
        /\ analysis[sig].Path = FirstOf(sig).Path
        /\ analysis[sig].ErrorMsg = FirstOf(sig).Error

C10_ReportUsesStored ==
    \A n \in 1..Len(report) :
        LET first == FirstOf(sorted[n].Signature)
        IN  /\ report[n].Error = cleanForDisplay(first.Error)
            /\ report[n].Analysis = Advice(first.Path, first.Error, rules)

C10_IdentityKept ==
    \A sig \in DOMAIN analysis :
        /\ sig \in DOMAIN analysis'
        /\ analysis'[sig].Signature = analysis[sig].Signature
        /\ analysis'[sig].Path = analysis[sig].Path
        /\ analysis'[sig].ErrorMsg = analysis[sig].ErrorMsg

\* C10 (identity fixed at first observation): an incident is never removed
\* and its Signature, Path and ErrorMsg stay those of the first event of its
\* signature, the untrimmed error text included; the report matches the
\* rules against, and displays, that stored text.
C10_IdentityFixed ==
    /\ [](C10_IdentityAtFirst /\ C10_ReportUsesStored)
    /\ [][C10_IdentityKept]_vars

\* A reported incident whose later event has another untrimmed error text
\* than its first.
C10_Witness ==
    /\ pc = "done"
    /\ \E sig \in DOMAIN analysis :
          \E j \in EventsOf(sig) :
              /\ file[j].entry.Error # FirstOf(sig).Error
              /\ analysis[sig].ErrorMsg = FirstOf(sig).Error
              /\ analysis[sig].ErrorMsg # TrimSpace(analysis[sig].ErrorMsg)

=============================================================================
